---- MODULE Spec2Model ----
(***************************************************************************)
(* Model of the phone-assistant webhook relay (src/app.py): the three      *)
(* Flask routes /voice, /gather_input and /status_callback acting on the   *)
(* module-level dictionary `conversations`, the Gemini model and the SMTP  *)
(* mail helper.                                                            *)
(*                                                                         *)
(* A Python string is a sequence of string tokens: concatenation and       *)
(* f-string interpolation are \o, the empty string is << >>.  An optional  *)
(* form value (request.values.get) is a record [present, text].            *)
(***************************************************************************)
EXTENDS Integers, Sequences, FiniteSets, TLC

VARIABLES
    conversations,    \* app.py:52   call_sid -> [transcript, llm_history]
    GEMINI_MODEL,     \* app.py:25-33 TRUE iff GEMINI_API_KEY was set at startup
    SENDER_EMAIL,     \* app.py:37   TRUE iff the variable is set (truthy)
    SENDER_PASSWORD,  \* app.py:38
    RECEIVER_EMAIL,   \* app.py:39
    request,          \* the form values of the webhook handled last
    resp,             \* the response the last handler returned
    llm_calls,        \* the Gemini calls the last handler made, in order
    mail_calls,       \* the send_email_summary calls the last handler made
    threads           \* the request handlers in flight, one per worker thread

vars == <<conversations, GEMINI_MODEL, SENDER_EMAIL, SENDER_PASSWORD,
          RECEIVER_EMAIL, request, resp, llm_calls, mail_calls, threads>>

\* What is known of the handler that ran last, start to end, on its own.
handled == <<request, resp, llm_calls, mail_calls>>

config == <<GEMINI_MODEL, SENDER_EMAIL, SENDER_PASSWORD, RECEIVER_EMAIL>>

----------------------------------------------------------------------------
(* Bounds and input sets *)

MaxLines == 5

CallSids == {"CA1", "CA2"}

None == [present |-> FALSE, text |-> << >>]

Some(t) == [present |-> TRUE, text |-> t]

SpeechResults == {None, Some(<< >>), Some(<<"I need a callback">>)}

CallStatuses == {"completed", "busy", "no-answer", "failed", "in-progress"}

LLMReplies == {<<"Sure, what is the best number?">>}

LLMSummaries == {<<"Caller requested callback.">>}

ChatOutcomes == {"ok", "start_chat_raises", "send_message_raises"}

GenerateOutcomes == {"ok", "raises"}

SmtpOutcomes == {"ok", "raises"}

\* <<SENDER_EMAIL, SENDER_PASSWORD, RECEIVER_EMAIL>> as set in the environment:
\* all three, or all but one.
MailEnvs == {<<TRUE, TRUE, TRUE>>, <<FALSE, TRUE, TRUE>>, <<TRUE, FALSE, TRUE>>,
             <<TRUE, TRUE, FALSE>>}

----------------------------------------------------------------------------
(* Python value semantics *)

\* bool(x) of an optional string: None and "" are falsy.
Truthy(v) == v.present /\ v.text # << >>

\* f"{x}" of an optional string: None formats as the text None.
Format(v) == IF v.present THEN v.text ELSE <<"None">>

RECURSIVE Join(_, _)
\* sep.join(lines)
Join(sep, lines) ==
    IF lines = << >> THEN << >>
    ELSE IF Len(lines) = 1 THEN lines[1]
    ELSE lines[1] \o sep \o Join(sep, Tail(lines))

----------------------------------------------------------------------------
(* Fixed texts *)

SYSTEM_PROMPT_RECEPTIONIST == <<"You are a professional, polite, and efficient virtual receptionist">>

SYSTEM_PROMPT_SUMMARIZER == <<"Summarize the following phone call conversation", "Conversation:\n">>

initial_greeting == <<"Hello, thank you for calling. Please state the purpose of your call.">>

ErrorMessage == <<"I'm sorry, an error occurred. Please try again.">>

TroubleMessage == <<"I'm sorry, I'm having trouble understanding right now. Please try again or hang up.">>

AckMessage == <<"Thank you. I have received your message.">>

FarewellMessage == <<"Thank you for calling. Goodbye.">>

TerminalStatuses == {"completed", "busy", "no-answer", "failed"}

BotLine(text) == <<"Bot: ">> \o text

CallerLine(speech_result) == <<"Caller: ">> \o Format(speech_result)

GatherAction(call_sid) == <<"/gather_input?CallSid=", call_sid>>

----------------------------------------------------------------------------
(* Responses *)

NoResp == [say |-> << >>, gather |-> FALSE, action |-> << >>, hangup |-> FALSE,
           body |-> << >>, code |-> 0]

\* VoiceResponse(): say verbs in order, then an optional gather or hangup.
Twiml(say, gather, action, hangup) ==
    [say |-> say, gather |-> gather, action |-> action, hangup |-> hangup,
     body |-> <<"twiml">>, code |-> 200]

OkResp == [say |-> << >>, gather |-> FALSE, action |-> << >>, hangup |-> FALSE,
           body |-> <<"OK">>, code |-> 200]

\* conversations[call_sid] = session  (dictionary store)
Put(convs, call_sid, session) ==
    [s \in DOMAIN convs \cup {call_sid} |-> IF s = call_sid THEN session ELSE convs[s]]

\* del conversations[call_sid]
Del(convs, call_sid) == [s \in DOMAIN convs \ {call_sid} |-> convs[s]]

RECURSIVE StoredLines(_)
\* The transcript lines held in the store, over all sessions.
StoredLines(convs) ==
    IF DOMAIN convs = {} THEN 0
    ELSE LET s == CHOOSE x \in DOMAIN convs : TRUE
         IN  Len(convs[s].transcript) + StoredLines(Del(convs, s))

Req(endpoint, call_sid, speech_result, call_status) ==
    [endpoint |-> endpoint, CallSid |-> call_sid, SpeechResult |-> speech_result,
     CallStatus |-> call_status]

----------------------------------------------------------------------------
(* /voice *)

NewCallSid_Always(call_sid) == TRUE

NewCallSid(call_sid) == call_sid \notin DOMAIN conversations

NewConversation_NoSystemPrompt ==
    [transcript |-> << >>, llm_history |-> << >>]

NewConversation ==
    [transcript |-> << >>,
     llm_history |-> <<[role |-> "user", parts |-> SYSTEM_PROMPT_RECEPTIONIST]>>]

voice(call_sid) ==
    /\ request' = Req("/voice", call_sid, None, "")
    /\ llm_calls' = << >>
    /\ mail_calls' = << >>
    /\ IF NewCallSid(call_sid)
       THEN /\ conversations' =
                 Put(conversations, call_sid,
                     [NewConversation EXCEPT
                        !.transcript = Append(@, BotLine(initial_greeting))])
            /\ resp' = Twiml(<<initial_greeting>>, TRUE, GatherAction(call_sid), FALSE)
       ELSE /\ conversations' = conversations
            /\ resp' = Twiml(<< >>, TRUE, GatherAction(call_sid), FALSE)
    /\ UNCHANGED <<config, threads>>

----------------------------------------------------------------------------
(* /gather_input *)

\* What a chat call hands to the model: the history the chat session was
\* started with, followed by the message sent as a new user turn.
Delivered(call) == call.history \o <<[role |-> "user", parts |-> call.text]>>

\* One call of the Gemini SDK: the history and text handed over, whether it
\* returned or raised, and the text it returned.
LlmCall(method, history, text, result, returned) ==
    [method |-> method, history |-> history, text |-> text, result |-> result,
     returned |-> returned]

UseLLM_IgnoresSpeech(speech_result) == GEMINI_MODEL

\* `if speech_result and GEMINI_MODEL`
UseLLM(speech_result) == Truthy(speech_result) /\ GEMINI_MODEL

gather_unknown_Creates(call_sid, speech_result) ==
    /\ conversations' =
         Put(conversations, call_sid,
             [NewConversation EXCEPT !.transcript = <<CallerLine(speech_result)>>])
    /\ llm_calls' = << >>
    /\ resp' = Twiml(<<ErrorMessage>>, FALSE, << >>, TRUE)

\* call_sid not in conversations: canned error, hang up, nothing stored.
gather_unknown(call_sid, speech_result) ==
    /\ conversations' = conversations
    /\ llm_calls' = << >>
    /\ resp' = Twiml(<<ErrorMessage>>, FALSE, << >>, TRUE)

\* The reply joins llm_history as a model turn and the transcript as a Bot line.
Answered_HistoryOnly(current_transcript, asked, llm_response) ==
    [transcript |-> current_transcript,
     llm_history |-> Append(asked, [role |-> "model", parts |-> llm_response])]

Answered(current_transcript, asked, llm_response) ==
    [transcript |-> Append(current_transcript, BotLine(llm_response)),
     llm_history |-> Append(asked, [role |-> "model", parts |-> llm_response])]

\* The try block: the caller's input joins llm_history before the chat call,
\* the reply joins both lists after it; an exception leaves what was done.
gather_llm(call_sid, speech_result, current_transcript, llm_history, chat, llm_response) ==
    LET asked == Append(llm_history, [role |-> "user", parts |-> speech_result.text])
        start == LlmCall("start_chat", asked, << >>,
                         IF chat = "start_chat_raises" THEN "raises" ELSE "ok", << >>)
        send  == LlmCall("send_message", asked, speech_result.text,
                         IF chat = "ok" THEN "ok" ELSE "raises",
                         IF chat = "ok" THEN llm_response ELSE << >>)
    IN  IF chat = "ok"
        THEN /\ conversations' =
                  Put(conversations, call_sid, Answered(current_transcript, asked, llm_response))
             /\ llm_calls' = <<start, send>>
             /\ resp' = Twiml(<<llm_response>>, TRUE, GatherAction(call_sid), FALSE)
        ELSE /\ conversations' =
                  Put(conversations, call_sid,
                      [transcript |-> current_transcript, llm_history |-> asked])
             /\ llm_calls' = IF chat = "start_chat_raises" THEN <<start>> ELSE <<start, send>>
             /\ resp' = Twiml(<<TroubleMessage>>, FALSE, << >>, TRUE)

gather_no_llm_Removes(call_sid, current_transcript, llm_history) ==
    /\ conversations' = Del(conversations, call_sid)
    /\ llm_calls' = << >>
    /\ resp' = IF ~GEMINI_MODEL
               THEN Twiml(<<AckMessage>>, FALSE, << >>, TRUE)
               ELSE Twiml(<<FarewellMessage>>, FALSE, << >>, TRUE)

\* The two branches without the LLM: `elif not GEMINI_MODEL`, then `else`.
gather_no_llm(call_sid, current_transcript, llm_history) ==
    /\ conversations' =
         Put(conversations, call_sid,
             [transcript |-> current_transcript, llm_history |-> llm_history])
    /\ llm_calls' = << >>
    /\ resp' = IF ~GEMINI_MODEL
               THEN Twiml(<<AckMessage>>, FALSE, << >>, TRUE)
               ELSE Twiml(<<FarewellMessage>>, FALSE, << >>, TRUE)

gather_input(call_sid, speech_result) ==
    /\ request' = Req("/gather_input", call_sid, speech_result, "")
    /\ mail_calls' = << >>
    /\ IF call_sid \notin DOMAIN conversations
       THEN gather_unknown(call_sid, speech_result)
       ELSE LET conversation_data == conversations[call_sid]
                llm_history == conversation_data.llm_history
                current_transcript ==
                    Append(conversation_data.transcript, CallerLine(speech_result))
            IN  /\ StoredLines(conversations) < MaxLines
                /\ IF UseLLM(speech_result)
                   THEN \E chat \in ChatOutcomes, llm_response \in LLMReplies :
                            gather_llm(call_sid, speech_result, current_transcript,
                                       llm_history, chat, llm_response)
                   ELSE gather_no_llm(call_sid, current_transcript, llm_history)
    /\ UNCHANGED <<config, threads>>

----------------------------------------------------------------------------
(* send_email_summary and /status_callback *)

MailConfigured == SENDER_EMAIL /\ SENDER_PASSWORD /\ RECEIVER_EMAIL

send_email_summary_Propagates(call_sid, summary_content, smtp) ==
    [call_sid |-> call_sid,
     body     |-> summary_content,
     subject  |-> IF MailConfigured THEN <<"Phone Chatbot Summary for Call ", call_sid>> ELSE << >>,
     outcome  |-> IF ~MailConfigured THEN "not_configured"
                  ELSE IF smtp = "ok" THEN "sent" ELSE "failed",
     raised   |-> MailConfigured /\ smtp = "raises"]

\* One invocation of the mail helper: what it was called with and how it ended.
\* It returns early when unconfigured and catches every SMTP exception, so it
\* never raises.
send_email_summary(call_sid, summary_content, smtp) ==
    [call_sid |-> call_sid,
     body     |-> summary_content,
     subject  |-> IF MailConfigured THEN <<"Phone Chatbot Summary for Call ", call_sid>> ELSE << >>,
     outcome  |-> IF ~MailConfigured THEN "not_configured"
                  ELSE IF smtp = "ok" THEN "sent" ELSE "failed",
     raised   |-> FALSE]

FailedBody(call_sid, full_transcript) ==
    <<"LLM Summary Failed for Call ", call_sid, ".\n\nFull Transcript:\n">> \o full_transcript

InactiveBody(call_sid, full_transcript) ==
    <<"LLM not active. Raw Transcript for Call ", call_sid, ":\n">> \o full_transcript

\* `call_status in [...] and call_sid in conversations`
Honoured(call_sid, call_status) ==
    call_status \in TerminalStatuses /\ call_sid \in DOMAIN conversations

\* The mail invocations of the summary block, in order.  The summary mail is
\* sent inside the try, so an exception out of it reaches the except clause,
\* which sends the fallback.
SummaryMails(call_sid, full_transcript, gen, summary_response, smtp) ==
    IF GEMINI_MODEL
    THEN IF gen = "ok"
         THEN LET first == send_email_summary(call_sid, summary_response, smtp)
              IN  IF first.raised
                  THEN <<first, send_email_summary(call_sid, FailedBody(call_sid, full_transcript), smtp)>>
                  ELSE <<first>>
         ELSE <<send_email_summary(call_sid, FailedBody(call_sid, full_transcript), smtp)>>
    ELSE <<send_email_summary(call_sid, InactiveBody(call_sid, full_transcript), smtp)>>

AfterSummary_Keeps(convs, call_sid, mails) == convs

AfterSummary_OnlyWhenSent(convs, call_sid, mails) ==
    IF mails[Len(mails)].outcome = "sent" THEN Del(convs, call_sid) ELSE convs

\* What is left of the store after the summary block: the del statement is
\* reached unless an exception left the handler.
AfterSummary(convs, call_sid, mails) ==
    IF mails[Len(mails)].raised THEN convs ELSE Del(convs, call_sid)

ErrorResp == [say |-> << >>, gather |-> FALSE, action |-> << >>, hangup |-> FALSE,
              body |-> <<"Internal Server Error">>, code |-> 500]

status_callback(call_sid, call_status) ==
    /\ request' = Req("/status_callback", call_sid, None, call_status)
    /\ IF Honoured(call_sid, call_status)
       THEN \E gen \in GenerateOutcomes, summary_response \in LLMSummaries,
               smtp \in SmtpOutcomes :
            LET full_transcript == Join(<<"\n">>, conversations[call_sid].transcript)
                summary_prompt == SYSTEM_PROMPT_SUMMARIZER \o full_transcript
                mails == SummaryMails(call_sid, full_transcript, gen, summary_response, smtp)
            IN  /\ llm_calls' =
                     IF GEMINI_MODEL
                     THEN <<LlmCall("generate_content", << >>, summary_prompt,
                                    IF gen = "ok" THEN "ok" ELSE "raises",
                                    IF gen = "ok" THEN summary_response ELSE << >>)>>
                     ELSE << >>
                /\ mail_calls' = mails
                /\ conversations' = AfterSummary(conversations, call_sid, mails)
                /\ resp' = IF mails[Len(mails)].raised THEN ErrorResp ELSE OkResp
       ELSE /\ llm_calls' = << >>
            /\ mail_calls' = << >>
            /\ conversations' = conversations
            /\ resp' = OkResp
    /\ UNCHANGED <<config, threads>>

----------------------------------------------------------------------------
(* Handlers run by concurrent worker threads.  A thread runs one handler   *)
(* in steps; between two steps the other thread may run.  The steps end    *)
(* where the handler waits for the network (the Gemini call, the SMTP      *)
(* dialogue) and between its test `call_sid in conversations` and its next *)
(* use of the dictionary.                                                  *)

Threads == {1, 2}

ConcurrentSids == {"CA1"}

ConcurrentStatuses == {"completed", "in-progress"}

NoSession == [transcript |-> << >>, llm_history |-> << >>]

\* A worker thread: where its handler stands (pc), the request it handles, its
\* response, the Gemini and mail calls it made, and the handler's locals:
\*   base   the session as conversation_data bound it (gather_input)
\*   held   the session's lists once another handler deleted the dictionary
\*          entry (orphan): current_transcript and llm_history still refer to
\*          them, the dictionary no longer does
\*   pos    the index in the session's transcript of the last line it appended
\*   wrote_removed  it appended to the lists after the entry was deleted
\*   used   the transcript lines full_transcript was joined from (status_callback)
Idle ==
    [pc |-> "idle", req |-> Req("", "", None, ""), resp |-> NoResp,
     llm |-> << >>, mails |-> << >>, base |-> NoSession, held |-> NoSession,
     orphan |-> FALSE, pos |-> 0, wrote_removed |-> FALSE, used |-> << >>]

\* Flask's answer to a handler that ended with an uncaught exception.
Crashed == [say |-> << >>, gather |-> FALSE, action |-> << >>, hangup |-> FALSE,
            body |-> <<"Internal Server Error">>, code |-> 500]

Quiet == \A t \in Threads : threads[t].pc \in {"idle", "done"}

\* The lists thread t's current_transcript and llm_history refer to.
SessionOf(t) ==
    IF threads[t].orphan THEN threads[t].held
    ELSE conversations[threads[t].req.CallSid]

\* Thread t appends to its lists, leaving them as session, and goes on as rec.
Appends(t, session, rec) ==
    IF threads[t].orphan
    THEN /\ conversations' = conversations
         /\ threads' = [threads EXCEPT
                          ![t] = [rec EXCEPT !.held = session, !.wrote_removed = TRUE]]
    ELSE /\ conversations' = Put(conversations, threads[t].req.CallSid, session)
         /\ threads' = [threads EXCEPT ![t] = rec]

\* gather_input, lines 149-159: the request values and the test
\* `call_sid not in conversations`.
g_begin(t, call_sid, speech_result) ==
    /\ threads[t].pc = "idle"
    /\ StoredLines(conversations) < MaxLines
    /\ LET me == [Idle EXCEPT !.req = Req("/gather_input", call_sid, speech_result, "")]
       IN  threads' = [threads EXCEPT ![t] =
             IF call_sid \notin DOMAIN conversations
             THEN [me EXCEPT !.pc = "done",
                             !.resp = Twiml(<<ErrorMessage>>, FALSE, << >>, TRUE)]
             ELSE [me EXCEPT !.pc = "g_lookup"]]
    /\ UNCHANGED <<conversations, config, handled>>

\* Lines 161-163: conversation_data = conversations[call_sid] raises KeyError
\* when the entry has been deleted since the test.
g_lookup(t) ==
    /\ threads[t].pc = "g_lookup"
    /\ LET call_sid == threads[t].req.CallSid
       IN  threads' = [threads EXCEPT ![t] =
             IF call_sid \notin DOMAIN conversations
             THEN [@ EXCEPT !.pc = "done", !.resp = Crashed]
             ELSE [@ EXCEPT !.pc = "g_append", !.base = conversations[call_sid]]]
    /\ UNCHANGED <<conversations, config, handled>>

\* Lines 165-177 up to the request to Gemini: the caller line, and on the LLM
\* branch the caller turn; the other branches answer and hang up.
g_append(t) ==
    /\ threads[t].pc = "g_append"
    /\ LET me == threads[t]
           speech_result == me.req.SpeechResult
           current_transcript == Append(SessionOf(t).transcript, CallerLine(speech_result))
           llm_history == SessionOf(t).llm_history
           wrote == [me EXCEPT !.pos = Len(current_transcript)]
       IN  IF UseLLM(speech_result)
           THEN Appends(t, [transcript |-> current_transcript,
                            llm_history |-> Append(llm_history,
                                [role |-> "user", parts |-> speech_result.text])],
                        [wrote EXCEPT !.pc = "g_reply"])
           ELSE Appends(t, [transcript |-> current_transcript, llm_history |-> llm_history],
                        [wrote EXCEPT !.pc = "done",
                           !.resp = IF ~GEMINI_MODEL
                                    THEN Twiml(<<AckMessage>>, FALSE, << >>, TRUE)
                                    ELSE Twiml(<<FarewellMessage>>, FALSE, << >>, TRUE)])
    /\ UNCHANGED <<config, handled>>

\* Lines 175-196 from Gemini's answer on: the reply joins both lists as they
\* are by now, or the except clause answers with the apology.
g_reply(t, chat, llm_response) ==
    /\ threads[t].pc = "g_reply"
    /\ LET me == threads[t]
           text == me.req.SpeechResult.text
           asked == SessionOf(t).llm_history
           start == LlmCall("start_chat", asked, << >>,
                            IF chat = "start_chat_raises" THEN "raises" ELSE "ok", << >>)
           send  == LlmCall("send_message", asked, text,
                            IF chat = "ok" THEN "ok" ELSE "raises",
                            IF chat = "ok" THEN llm_response ELSE << >>)
       IN  IF chat = "ok"
           THEN LET session == Answered(SessionOf(t).transcript, asked, llm_response)
                IN  Appends(t, session,
                        [me EXCEPT !.pc = "done", !.llm = <<start, send>>,
                                   !.pos = Len(session.transcript),
                                   !.resp = Twiml(<<llm_response>>, TRUE,
                                                  GatherAction(me.req.CallSid), FALSE)])
           ELSE /\ conversations' = conversations
                /\ threads' = [threads EXCEPT ![t] =
                      [me EXCEPT !.pc = "done",
                                 !.llm = IF chat = "start_chat_raises"
                                         THEN <<start>> ELSE <<start, send>>,
                                 !.resp = Twiml(<<TroubleMessage>>, FALSE, << >>, TRUE)]]
    /\ UNCHANGED <<config, handled>>

\* status_callback, lines 216-222: the request values and the test
\* `call_status in [...] and call_sid in conversations`.
s_begin(t, call_sid, call_status) ==
    /\ threads[t].pc = "idle"
    /\ LET me == [Idle EXCEPT !.req = Req("/status_callback", call_sid, None, call_status)]
       IN  threads' = [threads EXCEPT ![t] =
             IF Honoured(call_sid, call_status)
             THEN [me EXCEPT !.pc = "s_join"]
             ELSE [me EXCEPT !.pc = "done", !.resp = OkResp]]
    /\ UNCHANGED <<conversations, config, handled>>

\* Line 224: conversations[call_sid]["transcript"] raises KeyError when the
\* entry has been deleted since the test; else the lines are joined.
s_join(t) ==
    /\ threads[t].pc = "s_join"
    /\ LET call_sid == threads[t].req.CallSid
       IN  threads' = [threads EXCEPT ![t] =
             IF call_sid \notin DOMAIN conversations
             THEN [@ EXCEPT !.pc = "done", !.resp = Crashed]
             ELSE [@ EXCEPT !.pc = "s_mail",
                            !.used = conversations[call_sid].transcript]]
    /\ UNCHANGED <<conversations, config, handled>>

\* Lines 227-243: the summary request to Gemini and the mail.
s_mail(t, gen, summary_response, smtp) ==
    /\ threads[t].pc = "s_mail"
    /\ LET me == threads[t]
           call_sid == me.req.CallSid
           full_transcript == Join(<<"\n">>, me.used)
           mails == SummaryMails(call_sid, full_transcript, gen, summary_response, smtp)
           llm == IF GEMINI_MODEL
                  THEN <<LlmCall("generate_content", << >>,
                                 SYSTEM_PROMPT_SUMMARIZER \o full_transcript,
                                 IF gen = "ok" THEN "ok" ELSE "raises",
                                 IF gen = "ok" THEN summary_response ELSE << >>)>>
                  ELSE << >>
       IN  threads' = [threads EXCEPT ![t] =
             IF mails[Len(mails)].raised
             THEN [me EXCEPT !.pc = "done", !.llm = llm, !.mails = mails, !.resp = Crashed]
             ELSE [me EXCEPT !.pc = "s_del", !.llm = llm, !.mails = mails]]
    /\ UNCHANGED <<conversations, config, handled>>

\* The threads whose current_transcript and llm_history refer to the lists of
\* the dictionary's entry for call_sid.
Holders(call_sid) ==
    {u \in Threads : /\ threads[u].pc \in {"g_append", "g_reply"}
                     /\ threads[u].req.CallSid = call_sid
                     /\ ~threads[u].orphan}

\* Lines 245-250: del conversations[call_sid] raises KeyError when the entry
\* is gone already; else the entry goes and the handler answers OK.
s_del(t) ==
    /\ threads[t].pc = "s_del"
    /\ LET call_sid == threads[t].req.CallSid
       IN  IF call_sid \notin DOMAIN conversations
           THEN /\ conversations' = conversations
                /\ threads' = [threads EXCEPT ![t] = [@ EXCEPT !.pc = "done", !.resp = Crashed]]
           ELSE /\ conversations' = Del(conversations, call_sid)
                /\ threads' =
                     [u \in Threads |->
                        IF u = t THEN [threads[u] EXCEPT !.pc = "done", !.resp = OkResp]
                        ELSE IF u \in Holders(call_sid)
                        THEN [threads[u] EXCEPT !.orphan = TRUE,
                                                !.held = conversations[call_sid]]
                        ELSE threads[u]]
    /\ UNCHANGED <<config, handled>>

\* A call starts while no handler is in flight.
c_voice(call_sid) ==
    /\ \A t \in Threads : threads[t].pc = "idle"
    /\ voice(call_sid)

\* The responses have gone out and the threads are free again.
c_return ==
    /\ Quiet
    /\ \E t \in Threads : threads[t].pc = "done"
    /\ threads' = [t \in Threads |-> Idle]
    /\ UNCHANGED <<conversations, config, handled>>

NextConcurrent ==
    \/ \E call_sid \in ConcurrentSids : c_voice(call_sid)
    \/ c_return
    \/ \E t \in Threads, call_sid \in ConcurrentSids, speech_result \in SpeechResults :
            g_begin(t, call_sid, speech_result)
    \/ \E t \in Threads : g_lookup(t)
    \/ \E t \in Threads : g_append(t)
    \/ \E t \in Threads, chat \in ChatOutcomes, llm_response \in LLMReplies :
            g_reply(t, chat, llm_response)
    \/ \E t \in Threads, call_sid \in ConcurrentSids, call_status \in ConcurrentStatuses :
            s_begin(t, call_sid, call_status)
    \/ \E t \in Threads : s_join(t)
    \/ \E t \in Threads, gen \in GenerateOutcomes, summary_response \in LLMSummaries,
          smtp \in SmtpOutcomes :
            s_mail(t, gen, summary_response, smtp)
    \/ \E t \in Threads : s_del(t)

----------------------------------------------------------------------------

Init ==
    /\ conversations = << >>
    /\ GEMINI_MODEL \in BOOLEAN
    /\ \E env \in MailEnvs :
          /\ SENDER_EMAIL = env[1]
          /\ SENDER_PASSWORD = env[2]
          /\ RECEIVER_EMAIL = env[3]
    /\ request = Req("", "", None, "")
    /\ resp = NoResp
    /\ llm_calls = << >>
    /\ mail_calls = << >>
    /\ threads = [t \in Threads |-> Idle]

Next ==
    \/ \E call_sid \in CallSids : voice(call_sid)
    \/ \E call_sid \in CallSids, speech_result \in SpeechResults :
            gather_input(call_sid, speech_result)
    \/ \E call_sid \in CallSids, call_status \in CallStatuses :
            status_callback(call_sid, call_status)

\* The handlers run one after the other, each to its end: no worker thread
\* is ever in the middle of a handler.
Spec == Init /\ [][Next]_vars

\* Two worker threads handle webhooks for one call id concurrently.
SpecConcurrent == Init /\ [][NextConcurrent]_vars

----------------------------------------------------------------------------
(* Properties.  A step is the handling of one webhook: the primed request  *)
(* names the handler and its form values, the unprimed store is the store  *)
(* the handler found.                                                      *)

\* The step handles a webhook for call id c at the given endpoint.
Handles(endpoint, c) == request'.endpoint = endpoint /\ request'.CallSid = c

\* Every session but c's is left as it was.
OthersKept(c) ==
    /\ DOMAIN conversations' \ {c} = DOMAIN conversations \ {c}
    /\ \A d \in DOMAIN conversations \ {c} : conversations'[d] = conversations[d]

GreetingLine == <<"Bot: ">> \o initial_greeting

SystemTurn == [role |-> "user", parts |-> SYSTEM_PROMPT_RECEPTIONIST]

\* C1: /voice for a call id without a session leaves exactly the session
\* [llm_history = [system instruction], transcript = [Bot: greeting]] for that
\* id, touches no other session, and the response speaks the fixed greeting.
C1_BeginCallCreatesSession ==
    [][\A c \in CallSids :
         (Handles("/voice", c) /\ c \notin DOMAIN conversations)
         => /\ c \in DOMAIN conversations'
            /\ conversations'[c].llm_history = <<SystemTurn>>
            /\ conversations'[c].transcript = <<GreetingLine>>
            /\ OthersKept(c)
            /\ resp'.say = <<initial_greeting>>]_vars

C1_Witness ==
    /\ request.endpoint = "/voice"
    /\ resp.say = <<initial_greeting>>
    /\ request.CallSid \in DOMAIN conversations
    /\ conversations[request.CallSid].transcript = <<GreetingLine>>
    /\ Cardinality(DOMAIN conversations) = 2

\* C2: /voice for a call id that already has a session leaves the whole store,
\* that session's transcript and llm_history included, exactly as it was.
C2_BeginCallKeepsSession ==
    [][\A c \in CallSids :
         (Handles("/voice", c) /\ c \in DOMAIN conversations)
         => conversations' = conversations]_vars

\* A duplicate /voice (it spoke nothing) handled after two speech turns.
C2_Witness ==
    /\ request.endpoint = "/voice"
    /\ resp.say = << >>
    /\ request.CallSid \in DOMAIN conversations
    /\ Len(conversations[request.CallSid].transcript) >= 4
    /\ Len(conversations[request.CallSid].llm_history) >= 3

\* C3: the response of /voice for a call id that already has a session speaks
\* the fixed greeting, as the first one did.
C3_DuplicateStartGreets ==
    [][\A c \in CallSids :
         (Handles("/voice", c) /\ c \in DOMAIN conversations)
         => resp'.say = <<initial_greeting>>]_vars

\* The step is a /gather_input for tracked call c whose speech reached the LLM.
SpeechTurn(c) ==
    /\ Handles("/gather_input", c)
    /\ c \in DOMAIN conversations
    /\ request'.SpeechResult.present
    /\ request'.SpeechResult.text # << >>
    /\ GEMINI_MODEL

LlmSucceeded == llm_calls' # << >> /\ \A i \in 1..Len(llm_calls') : llm_calls'[i].result = "ok"

LlmFailed == llm_calls' # << >> /\ llm_calls'[Len(llm_calls')].result = "raises"

\* C4: a speech turn whose LLM call succeeds appends one caller entry then one
\* assistant entry (the LLM's reply) to llm_history and to the transcript, speaks
\* the reply, and gathers again without hanging up.
C4_SuccessfulTurn ==
    [][\A c \in CallSids :
         (SpeechTurn(c) /\ LlmSucceeded)
         => LET said  == request'.SpeechResult.text
                reply == llm_calls'[Len(llm_calls')].returned
            IN  /\ reply \in LLMReplies
                /\ conversations'[c].llm_history =
                     conversations[c].llm_history \o
                       <<[role |-> "user", parts |-> said],
                         [role |-> "model", parts |-> reply]>>
                /\ conversations'[c].transcript =
                     conversations[c].transcript \o
                       <<(<<"Caller: ">> \o said), (<<"Bot: ">> \o reply)>>
                /\ OthersKept(c)
                /\ resp'.say = <<reply>>
                /\ resp'.gather
                /\ ~resp'.hangup]_vars

\* A second successful exchange: the reply was spoken and the transcript holds
\* greeting, caller, bot, caller, bot.
C4_Witness ==
    /\ request.endpoint = "/gather_input"
    /\ resp.gather
    /\ Len(llm_calls) = 2
    /\ resp.say = <<llm_calls[2].returned>>
    /\ request.CallSid \in DOMAIN conversations
    /\ Len(conversations[request.CallSid].transcript) = 5

\* C5: a speech turn whose LLM call fails speaks the trouble apology, hangs up,
\* records the caller's line in the transcript and leaves llm_history exactly
\* as it was before the turn.
C5_FailedTurnKeepsHistory ==
    [][\A c \in CallSids :
         (SpeechTurn(c) /\ LlmFailed)
         => /\ resp'.say = <<TroubleMessage>>
            /\ resp'.hangup
            /\ ~resp'.gather
            /\ conversations'[c].transcript =
                 Append(conversations[c].transcript,
                        <<"Caller: ">> \o request'.SpeechResult.text)
            /\ conversations'[c].llm_history = conversations[c].llm_history]_vars

\* The step is a /gather_input for tracked call c with absent or empty speech.
SilentTurn(c) ==
    /\ Handles("/gather_input", c)
    /\ c \in DOMAIN conversations
    /\ (~request'.SpeechResult.present \/ request'.SpeechResult.text = << >>)

\* C6: /gather_input for a tracked call with absent or empty speech hangs up,
\* does not gather again and makes no LLM call.
C6_SilenceHangsUp ==
    [][\A c \in CallSids :
         SilentTurn(c)
         => /\ resp'.hangup
            /\ ~resp'.gather
            /\ llm_calls' = << >>]_vars

\* Silence on a call that has had a full exchange, with the LLM configured.
C6_Witness ==
    /\ request.endpoint = "/gather_input"
    /\ ~Truthy(request.SpeechResult)
    /\ GEMINI_MODEL
    /\ resp.hangup
    /\ request.CallSid \in DOMAIN conversations
    /\ Len(conversations[request.CallSid].transcript) >= 4

\* C7: /gather_input for a tracked call with absent or empty speech speaks the
\* farewell message, whether or not the LLM is configured.
C7_SilenceGetsFarewell ==
    [][\A c \in CallSids :
         SilentTurn(c) => resp'.say = <<FarewellMessage>>]_vars

\* C8: /gather_input for a call id without a session speaks the canned error,
\* hangs up, makes no LLM call and leaves the store as it was.
C8_UnknownCall ==
    [][\A c \in CallSids :
         (Handles("/gather_input", c) /\ c \notin DOMAIN conversations)
         => /\ resp'.say = <<ErrorMessage>>
            /\ resp'.hangup
            /\ ~resp'.gather
            /\ llm_calls' = << >>
            /\ conversations' = conversations]_vars

\* Real speech for an untracked id while another call is tracked.
C8_Witness ==
    /\ request.endpoint = "/gather_input"
    /\ resp.say = <<ErrorMessage>>
    /\ Truthy(request.SpeechResult)
    /\ GEMINI_MODEL
    /\ request.CallSid \notin DOMAIN conversations
    /\ DOMAIN conversations # {}

\* The step is a /status_callback with a terminal status for tracked call c.
EndCall(c) ==
    /\ Handles("/status_callback", c)
    /\ request'.CallStatus \in {"completed", "busy", "no-answer", "failed"}
    /\ c \in DOMAIN conversations

\* C9: after /status_callback with a terminal status for a tracked call the
\* session is gone, whatever the LLM and the mail transport did, and the other
\* sessions are kept.
C9_EndCallRemovesSession ==
    [][\A c \in CallSids :
         EndCall(c) => (c \notin DOMAIN conversations' /\ OthersKept(c))]_vars

\* The summary call raised and the SMTP transport raised; the session is gone.
C9_Witness ==
    /\ request.endpoint = "/status_callback"
    /\ Len(llm_calls) = 1
    /\ llm_calls[1].result = "raises"
    /\ Len(mail_calls) = 1
    /\ mail_calls[1].outcome = "failed"
    /\ request.CallSid \notin DOMAIN conversations

\* The LLM was never set up, one mail variable is missing; the session is gone.
C9_WitnessUnconfigured ==
    /\ request.endpoint = "/status_callback"
    /\ ~GEMINI_MODEL
    /\ Len(mail_calls) = 1
    /\ mail_calls[1].outcome = "not_configured"
    /\ request.CallSid \notin DOMAIN conversations

\* text ends with tail and has something in front of it.
MarkedFallback(text, tail) ==
    /\ Len(text) > Len(tail)
    /\ SubSeq(text, Len(text) - Len(tail) + 1, Len(text)) = tail

\* C10: a /status_callback with a terminal status for a tracked call calls
\* send_email_summary exactly once, with that call id; the body is what the
\* LLM returned for the summarizer prompt over the joined transcript when that
\* call succeeded, and otherwise the joined transcript behind a fallback label.
C10_OneMailPerEndCall ==
    [][\A c \in CallSids :
         EndCall(c)
         => LET full == Join(<<"\n">>, conversations[c].transcript)
            IN  /\ Len(mail_calls') = 1
                /\ mail_calls'[1].call_sid = c
                /\ IF llm_calls' # << >> /\ llm_calls'[1].result = "ok"
                   THEN /\ llm_calls'[1].method = "generate_content"
                        /\ llm_calls'[1].text = SYSTEM_PROMPT_SUMMARIZER \o full
                        /\ mail_calls'[1].body = llm_calls'[1].returned
                        /\ mail_calls'[1].body \in LLMSummaries
                   ELSE MarkedFallback(mail_calls'[1].body, full)]_vars

\* The summary succeeded and the SMTP transport raised: still one invocation.
C10_Witness ==
    /\ request.endpoint = "/status_callback"
    /\ Len(llm_calls) = 1
    /\ llm_calls[1].result = "ok"
    /\ Len(mail_calls) = 1
    /\ mail_calls[1].body = llm_calls[1].returned
    /\ mail_calls[1].outcome = "failed"

----------------------------------------------------------------------------
(* Sequences of handlers: the unprimed request and response are those of   *)
(* the handler that ran just before the step's.                            *)

Terminal(call_status) == call_status \in {"completed", "busy", "no-answer", "failed"}

\* The handler before this step was a /status_callback with a terminal status for c.
AfterEndCall(c) ==
    /\ request.endpoint = "/status_callback"
    /\ request.CallSid = c
    /\ Terminal(request.CallStatus)

\* The handler before this step was a /gather_input for tracked call c that hung up.
AfterHangup(c) ==
    /\ request.endpoint = "/gather_input"
    /\ request.CallSid = c
    /\ c \in DOMAIN conversations
    /\ resp.hangup
    /\ ~resp.gather

NoOp ==
    /\ conversations' = conversations
    /\ mail_calls' = << >>
    /\ llm_calls' = << >>

\* C11: a terminal /status_callback for a call id without a session changes
\* nothing and sends no mail; so does the second of two terminal
\* /status_callbacks for one id handled back to back, which leaves at most one
\* mail attempt between them; and only /voice brings an id back into the store.
C11_RepeatedEndCallIsNoOp ==
    [][\A c \in CallSids :
         /\ (Handles("/status_callback", c) /\ Terminal(request'.CallStatus)
               /\ c \notin DOMAIN conversations)
            => (NoOp /\ resp' = OkResp)
         /\ (AfterEndCall(c) /\ Handles("/status_callback", c)
               /\ Terminal(request'.CallStatus))
            => (NoOp /\ Len(mail_calls) + Len(mail_calls') <= 1)
         /\ (c \notin DOMAIN conversations /\ c \in DOMAIN conversations')
            => Handles("/voice", c)]_vars

\* A terminal status for an id that is not in the store while another call is.
C11_Witness ==
    /\ request.endpoint = "/status_callback"
    /\ Terminal(request.CallStatus)
    /\ request.CallSid \notin DOMAIN conversations
    /\ DOMAIN conversations # {}
    /\ mail_calls = << >>
    /\ resp = OkResp

\* C12 as claimed: once /gather_input has hung up on a tracked call, a
\* terminal /status_callback for that id is a no-op without mail and a further
\* /gather_input gets the unknown-call answer; after a terminal
\* /status_callback a /gather_input gets the unknown-call answer.
C12_HangupTerminatesCall ==
    [][\A c \in CallSids :
         /\ (AfterHangup(c) /\ Handles("/status_callback", c)
               /\ Terminal(request'.CallStatus))
            => NoOp
         /\ (AfterHangup(c) /\ Handles("/gather_input", c))
            => resp'.say = <<ErrorMessage>>
         /\ (AfterEndCall(c) /\ Handles("/gather_input", c))
            => resp'.say = <<ErrorMessage>>]_vars

\* C12 as amended: /gather_input never removes a session, hang-up or not; the
\* terminal /status_callback after a hang-up is honoured (one mail, session
\* removed) and a /gather_input after a hang-up is handled as for a tracked
\* call; after a terminal /status_callback a /gather_input gets the
\* unknown-call answer and changes nothing.
C12_SessionOutlivesHangup ==
    [][\A c \in CallSids :
         /\ (Handles("/gather_input", c) /\ c \in DOMAIN conversations)
            => c \in DOMAIN conversations'
         /\ (AfterHangup(c) /\ Handles("/status_callback", c)
               /\ Terminal(request'.CallStatus))
            => /\ Len(mail_calls') = 1
               /\ mail_calls'[1].call_sid = c
               /\ c \notin DOMAIN conversations'
         /\ (AfterHangup(c) /\ Handles("/gather_input", c))
            => /\ resp'.say # <<ErrorMessage>>
               /\ Len(conversations'[c].transcript) > Len(conversations[c].transcript)
         /\ (AfterEndCall(c) /\ Handles("/gather_input", c))
            => /\ resp'.say = <<ErrorMessage>>
               /\ resp'.hangup
               /\ conversations' = conversations]_vars

\* An honoured end of call whose mailed transcript ends with the line of a
\* silent turn, that is, of a /gather_input that had hung up.
C12_Witness ==
    /\ request.endpoint = "/status_callback"
    /\ Len(mail_calls) = 1
    /\ ~GEMINI_MODEL
    /\ mail_calls[1].body[Len(mail_calls[1].body)] = "None"
    /\ request.CallSid \notin DOMAIN conversations

\* The system turn first, then caller (role user) and assistant (role model)
\* in strict alternation.
Alternates(h) ==
    /\ h # << >>
    /\ h[1] = SystemTurn
    /\ \A i \in 2..Len(h) : h[i].role = IF i % 2 = 0 THEN "user" ELSE "model"

\* C14: every session's llm_history starts with the system instruction and
\* then alternates caller, assistant, caller, assistant.
C14_HistoryAlternates ==
    \A c \in DOMAIN conversations : Alternates(conversations[c].llm_history)

IsCallerLine(line) == line[1] = "Caller: "

\* C15: no transcript holds a caller line directly followed by a caller line.
C15_NoTwoCallerLines ==
    \A c \in DOMAIN conversations :
        LET t == conversations[c].transcript
        IN  \A i \in 1..(Len(t) - 1) : ~(IsCallerLine(t[i]) /\ IsCallerLine(t[i + 1]))

IsPrefix(a, b) == Len(a) <= Len(b) /\ SubSeq(b, 1, Len(a)) = a

\* C16: after every handler each session has len(transcript) >=
\* len(llm_history) - 1, and a session that was there before the handler and
\* is there after it has its old transcript as a prefix of the new one.
C16_TranscriptAppendOnly ==
    [][/\ \A c \in DOMAIN conversations' :
             Len(conversations'[c].transcript) >= Len(conversations'[c].llm_history) - 1
       /\ \A c \in DOMAIN conversations \cap DOMAIN conversations' :
             IsPrefix(conversations[c].transcript, conversations'[c].transcript)]_vars

\* After an answered turn and a silent one: four lines, three history entries.
C16_Witness ==
    /\ request.endpoint = "/gather_input"
    /\ request.CallSid \in DOMAIN conversations
    /\ Len(conversations[request.CallSid].transcript) = 4
    /\ Len(conversations[request.CallSid].llm_history) = 3
    /\ ~Truthy(request.SpeechResult)

\* The session's llm_history as it stood when the last handler's chat message
\* was sent: the reply, if one came, is the only entry added since.
HistoryAtSend ==
    LET h == conversations[request.CallSid].llm_history
    IN  IF llm_calls[Len(llm_calls)].result = "ok" THEN SubSeq(h, 1, Len(h) - 1) ELSE h

\* C20: what /gather_input delivers to the LLM on a chat call is exactly the
\* session's llm_history, whose last entry is the caller's utterance, and
\* nothing after it.
C20_UtteranceDeliveredOnce ==
    (request.endpoint = "/gather_input" /\ Len(llm_calls) = 2)
    => LET d == Delivered(llm_calls[2])
       IN  /\ d = HistoryAtSend
           /\ d[Len(d)] = [role |-> "user", parts |-> request.SpeechResult.text]

----------------------------------------------------------------------------
(* Concurrent handlers (SpecConcurrent).                                   *)

IsGather(t) == threads[t].req.endpoint = "/gather_input"

IsStatus(t) == threads[t].req.endpoint = "/status_callback"

\* Thread t's handler found its call id in the dictionary when it tested.
PassedTest(t) ==
    \/ threads[t].pc \in {"g_lookup", "g_append", "g_reply", "s_join", "s_mail", "s_del"}
    \/ /\ threads[t].pc = "done"
       /\ IsGather(t)
       /\ threads[t].resp.say # <<ErrorMessage>>
    \/ /\ threads[t].pc = "done"
       /\ IsStatus(t)
       /\ (threads[t].mails # << >> \/ threads[t].resp.code = 500)

\* C13: every /status_callback, however its steps interleave with another
\* handler for the same call id, is answered "OK", 200; and one whose status
\* is not terminal changes no session and sends no mail.
C13_StatusAlwaysAcknowledged ==
    [][\A t \in Threads :
         (threads[t].pc # "done" /\ threads'[t].pc = "done"
            /\ threads'[t].req.endpoint = "/status_callback")
         => /\ threads'[t].resp = OkResp
            /\ ~Terminal(threads'[t].req.CallStatus)
               => (conversations' = conversations /\ threads'[t].mails = << >>)]_vars

\* The session a /gather_input run on its own leaves, given the session it
\* found, its speech and how its Gemini call ended.
TurnOn(session, t) ==
    LET speech_result == threads[t].req.SpeechResult
        lines == Append(session.transcript, CallerLine(speech_result))
        asked == Append(session.llm_history,
                        [role |-> "user", parts |-> speech_result.text])
        calls == threads[t].llm
    IN  IF ~UseLLM(speech_result)
        THEN [transcript |-> lines, llm_history |-> session.llm_history]
        ELSE IF calls[Len(calls)].result = "ok"
        THEN [transcript |-> Append(lines, <<"Bot: ">> \o calls[Len(calls)].returned),
              llm_history |-> Append(asked, [role |-> "model",
                                             parts |-> calls[Len(calls)].returned])]
        ELSE [transcript |-> lines, llm_history |-> asked]

\* C17: when two /gather_input handlers for one call id have both run, the
\* session is what running them one after the other, in one of the two
\* orders, leaves of the session the first of them found.
C17_SpeechHandlersSerialized ==
    \A t, u \in Threads :
        (/\ t # u
         /\ threads[t].pc = "done" /\ threads[u].pc = "done"
         /\ IsGather(t) /\ IsGather(u)
         /\ threads[t].req.CallSid = threads[u].req.CallSid
         /\ PassedTest(t) /\ PassedTest(u)
         /\ Len(threads[t].base.transcript) <= Len(threads[u].base.transcript))
        => conversations[threads[t].req.CallSid]
             \in {TurnOn(TurnOn(threads[t].base, t), u),
                  TurnOn(TurnOn(threads[t].base, u), t)}

\* C18: two terminal /status_callback handlers for one tracked call id make
\* at most one send_email_summary call between them, and neither ends with an
\* exception.
C18_NoDoubleMail ==
    \A t, u \in Threads :
        (/\ t # u
         /\ IsStatus(t) /\ IsStatus(u)
         /\ threads[t].req.CallSid = threads[u].req.CallSid
         /\ Terminal(threads[t].req.CallStatus) /\ Terminal(threads[u].req.CallStatus))
        => /\ Len(threads[t].mails) + Len(threads[u].mails) <= 1
           /\ threads[t].resp.code # 500
           /\ threads[u].resp.code # 500

\* C19: a /gather_input that found its call id in the dictionary does not
\* end with an exception and does not append to a session that has been
\* removed; and when it has run beside a /status_callback that mailed the
\* call's summary, every line it appended is among the lines summarised.
C19_SpeechSeesLiveSession ==
    \A g \in Threads :
        (IsGather(g) /\ PassedTest(g))
        => /\ threads[g].resp.code # 500
           /\ ~threads[g].wrote_removed
           /\ \A s \in Threads :
                (/\ IsStatus(s)
                 /\ threads[s].req.CallSid = threads[g].req.CallSid
                 /\ threads[s].mails # << >>
                 /\ threads[g].pc = "done")
                => threads[g].pos <= Len(threads[s].used)

====
